---- MODULE Spec2Model ----
(***************************************************************************)
(* Model of the risk gate and PnL accounting of src/backend/utility.py:    *)
(* RiskManager (can_place_order, update_position, get_risk_metrics) and    *)
(* TradingUtils.calculate_pnl, and of the order endpoint execute_trade of  *)
(* src/backend/main.py and src/backend/app_backup.py, and of               *)
(* SecurityManager.rate_limit_check of src/backend/security.py.            *)
(*                                                                         *)
(* Numbers.  The code computes with Python floats.  The model uses exact   *)
(* fixed-point integers in thousandths: a quantity q stands for q/1000, a  *)
(* money amount m (daily_pnl, realized_pnl, max_daily_loss, a notional)    *)
(* for m/1000, and max_position_size f for the fraction f/1000.  A price   *)
(* is a whole number of quote units, so quantity * price is again in       *)
(* thousandths and no product needs rescaling.  Binary floating-point      *)
(* representation error is outside the model.                              *)
(***************************************************************************)
EXTENDS Integers, Sequences, FiniteSets

VARIABLES
    max_daily_loss,      \* RiskManager.max_daily_loss
    max_position_size,   \* RiskManager.max_position_size
    daily_pnl,           \* RiskManager.daily_pnl
    positions,           \* RiskManager.positions: a dict symbol -> quantity
    calls,               \* number of update_position calls made so far
    trades,              \* the trade history handed to calculate_pnl
    ret,                 \* the most recent RiskManager call and what it gave back
    report,              \* what calculate_pnl returned, until the history grows
    metrics,             \* what the most recent get_risk_metrics call returned
    pc,                  \* concurrent callers: where each one stands
    order,               \* concurrent callers: the order each one was approved
                         \* for, and the ledger it was approved against
    http,                \* the most recent execute_trade request and its response
    redis,               \* the Redis server: the rate-limit key's counter
    limiter              \* rate_limit_check: each caller's locals, and the
                         \* calls allowed since the counter was created

\* the variables of rate_limit_check
rate == <<redis, limiter>>

\* the variables of get_risk_metrics, the concurrent callers, execute_trade
\* and rate_limit_check
aux == <<metrics, pc, order, http, redis, limiter>>

vars == <<max_daily_loss, max_position_size, daily_pnl, positions, calls, trades,
          ret, report, metrics, pc, order, http, redis, limiter>>

\* --------------------------------------------------------------- bounds

\* update_position calls explored by Spec
MaxFills == 2
\* length of the trade history explored by SpecPnl
MaxTrades == 2
\* update_position calls explored by SpecMetrics
MaxLedgerFills == 2
\* get_risk_metrics calls explored by SpecMetrics and SpecConc
MaxSnapshots == 2

\* calls of update_position made by the callers of SpecGate
MaxGateFills == 2

\* calls of rate_limit_check started in SpecRate
MaxRateCalls == 4
\* times the key's window ends in SpecRate
MaxExpiries == 1

\* ------------------------------------------------------ program constants

\* def __init__(self, max_daily_loss: float = 1000, ...)
DefaultMaxDailyLoss == 1000000
\* def __init__(..., max_position_size: float = 0.1)
DefaultMaxPositionSize == 100
\* "self.max_position_size * 10000  # Assuming 10k account"
ReferenceAccountSize == 10000

\* ---------------------------------------------------------------- inputs

Symbols == {"BTCUSDT", "ETHUSDT"}
\* 'HOLD' stands for any side string that is neither 'BUY' nor 'SELL'
Sides == {"BUY", "SELL", "HOLD"}
\* the orders and fills of Spec: 0, 2, 3, 10 and 15 units at price 0 or 100
Quantities == {0, 2000, 3000, 10000, 15000}
Prices == {0, 100}
\* the trade history of SpecPnl: 0.002 and 1 unit at price 1, 100 or 150
TradeQuantities == {2, 1000}
TradePrices == {1, 100, 150}
Trades ==
    [symbol : Symbols, side : Sides, quantity : TradeQuantities, price : TradePrices]
\* the orders and fills of SpecMetrics and SpecConc: 2 and 10 units at price 100
LedgerQuantities == {2000, 10000}
LedgerPrices == {100}

\* the orders of SpecGate: 2, 8 and 10 units at price 100
GateQuantities == {2000, 8000, 10000}
GatePrices == {100}

\* ------------------------------------------------------------ RiskManager

\* a missing symbol read as one unit
current_position_missing_is_one(symbol) ==
    IF symbol \in DOMAIN positions THEN positions[symbol] ELSE 1000

\* self.positions.get(symbol, 0)
current_position(symbol) ==
    IF symbol \in DOMAIN positions THEN positions[symbol] ELSE 0

\* position_value = quantity * price
position_value(quantity, price) == quantity * price

\* if side == 'BUY': current_position + quantity  else: current_position - quantity
new_position(symbol, side, quantity) ==
    IF side = "BUY"
    THEN current_position(symbol) + quantity
    ELSE current_position(symbol) - quantity

abs(x) == IF x < 0 THEN -x ELSE x

\* the daily-loss check with a strict comparison
daily_loss_check_lt == daily_pnl < -max_daily_loss

\* if self.daily_pnl <= -self.max_daily_loss
daily_loss_check == daily_pnl <= -max_daily_loss

\* the position-size check rejecting the threshold itself
position_size_check_ge(quantity, price) ==
    position_value(quantity, price) >= max_position_size * ReferenceAccountSize

\* if position_value > self.max_position_size * 10000
position_size_check(quantity, price) ==
    position_value(quantity, price) > max_position_size * ReferenceAccountSize

\* the position-limit check leaving out the position already held
position_limit_check_order_only(symbol, side, quantity, price) ==
    abs((IF side = "BUY" THEN quantity ELSE -quantity) * price)
        > max_position_size * ReferenceAccountSize

\* the position-limit check without abs()
position_limit_check_signed(symbol, side, quantity, price) ==
    new_position(symbol, side, quantity) * price
        > max_position_size * ReferenceAccountSize

\* if abs(new_position * price) > self.max_position_size * 10000
position_limit_check(symbol, side, quantity, price) ==
    abs(new_position(symbol, side, quantity) * price)
        > max_position_size * ReferenceAccountSize

Decision(approved, reason) == [approved |-> approved, reason |-> reason]

\* the checks with the position-size check ahead of the daily-loss check
can_place_order_size_first(symbol, side, quantity, price) ==
    IF position_size_check(quantity, price)
    THEN Decision(FALSE, "Position size too large")
    ELSE IF daily_loss_check
    THEN Decision(FALSE, "Daily loss limit exceeded")
    ELSE IF position_limit_check(symbol, side, quantity, price)
    THEN Decision(FALSE, "Position limit would be exceeded")
    ELSE Decision(TRUE, "Order approved")

\* the checks without the final position-limit check
can_place_order_no_limit(symbol, side, quantity, price) ==
    IF daily_loss_check
    THEN Decision(FALSE, "Daily loss limit exceeded")
    ELSE IF position_size_check(quantity, price)
    THEN Decision(FALSE, "Position size too large")
    ELSE Decision(TRUE, "Order approved")

\* the checks with the daily-loss check waived for a SELL
can_place_order_sell_recovers(symbol, side, quantity, price) ==
    IF daily_loss_check /\ side # "SELL"
    THEN Decision(FALSE, "Daily loss limit exceeded")
    ELSE IF position_size_check(quantity, price)
    THEN Decision(FALSE, "Position size too large")
    ELSE IF position_limit_check(symbol, side, quantity, price)
    THEN Decision(FALSE, "Position limit would be exceeded")
    ELSE Decision(TRUE, "Order approved")

\* RiskManager.can_place_order: the returned tuple (bool, str)
can_place_order(symbol, side, quantity, price) ==
    IF daily_loss_check
    THEN Decision(FALSE, "Daily loss limit exceeded")
    ELSE IF position_size_check(quantity, price)
    THEN Decision(FALSE, "Position size too large")
    ELSE IF position_limit_check(symbol, side, quantity, price)
    THEN Decision(FALSE, "Position limit would be exceeded")
    ELSE Decision(TRUE, "Order approved")

\* self.positions with quantity added whatever the side
positions_after_always_add(symbol, side, quantity) ==
    [s \in DOMAIN positions \cup {symbol} |->
        IF s = symbol THEN current_position(symbol) + quantity ELSE positions[s]]

\* self.positions with the entry deleted when its quantity returns to 0
positions_after_drop_zero(symbol, side, quantity) ==
    [s \in {k \in DOMAIN positions \cup {symbol} :
               k # symbol \/ new_position(symbol, side, quantity) # 0} |->
        IF s = symbol THEN new_position(symbol, side, quantity) ELSE positions[s]]

\* self.positions after update_position: the entry is created at 0 when
\* missing, then quantity is added for 'BUY' and subtracted otherwise
positions_after(symbol, side, quantity) ==
    [s \in DOMAIN positions \cup {symbol} |->
        IF s = symbol THEN new_position(symbol, side, quantity) ELSE positions[s]]

\* pnl_change with the sign of a buy lost
pnl_change_buy_adds(side, quantity, price) == quantity * price

\* pnl_change = quantity * price if side == 'SELL' else -quantity * price
pnl_change(side, quantity, price) ==
    IF side = "SELL" THEN quantity * price ELSE -(quantity * price)

\* update_position charging a loss to the limit as well
update_position_spends_limit(symbol, side, quantity, price) ==
    /\ positions' = positions_after(symbol, side, quantity)
    /\ daily_pnl' = daily_pnl + pnl_change(side, quantity, price)
    /\ max_daily_loss' = max_daily_loss + pnl_change(side, quantity, price)
    /\ UNCHANGED max_position_size

\* RiskManager.update_position: its effect on the RiskManager
update_position(symbol, side, quantity, price) ==
    /\ positions' = positions_after(symbol, side, quantity)
    /\ daily_pnl' = daily_pnl + pnl_change(side, quantity, price)
    /\ UNCHANGED <<max_daily_loss, max_position_size>>

\* ----------------------------------------------------------- TradingUtils

\* round(x, 2): x to the nearest hundredth, a tie to the even hundredth.
\* (On a float a decimal tie is decided by the binary value; the trade
\* quantities and prices above give even thousandths only, so no tie arises.)
round2(x) ==
    LET a == abs(x)
        q == a \div 10
        r == a % 10
        m == IF r > 5 \/ (r = 5 /\ q % 2 = 1) THEN q + 1 ELSE q
    IN  IF x < 0 THEN -(m * 10) ELSE m * 10

\* symbol_pnl after the loop over trades: per symbol realized_pnl and volume.
\* float() of a well-formed quantity or price is that number.
RECURSIVE symbol_pnl(_)
symbol_pnl(ts) ==
    IF ts = << >> THEN << >>
    ELSE LET before == symbol_pnl(SubSeq(ts, 1, Len(ts) - 1))
             trade == ts[Len(ts)]
             entry == IF trade.symbol \in DOMAIN before
                      THEN before[trade.symbol]
                      ELSE [realized_pnl |-> 0, volume |-> 0]
             amount == trade.quantity * trade.price
         IN  [s \in DOMAIN before \cup {trade.symbol} |->
                 IF s = trade.symbol
                 THEN [realized_pnl |->
                           IF trade.side = "SELL"
                           THEN entry.realized_pnl + amount
                           ELSE entry.realized_pnl - amount,
                       volume |-> entry.volume + amount]
                 ELSE before[s]]

\* sum(data['realized_pnl'] for data in symbol_pnl.values())
RECURSIVE sum_realized_pnl(_, _)
sum_realized_pnl(breakdown, keys) ==
    IF keys = {} THEN 0
    ELSE LET s == CHOOSE k \in keys : TRUE
         IN  breakdown[s].realized_pnl + sum_realized_pnl(breakdown, keys \ {s})

Report(total_pnl, symbol_breakdown) ==
    [made |-> TRUE, total_pnl |-> total_pnl, symbol_breakdown |-> symbol_breakdown]

NoReport == [made |-> FALSE, total_pnl |-> 0, symbol_breakdown |-> << >>]

\* the total left unrounded
calculate_pnl_unrounded(ts) ==
    LET breakdown == symbol_pnl(ts)
    IN  Report(sum_realized_pnl(breakdown, DOMAIN breakdown), breakdown)

\* TradingUtils.calculate_pnl: {'total_pnl': round(total_pnl, 2),
\*                              'symbol_breakdown': symbol_pnl}
calculate_pnl(ts) ==
    LET breakdown == symbol_pnl(ts)
    IN  Report(round2(sum_realized_pnl(breakdown, DOMAIN breakdown)), breakdown)

\* -------------------------------------------------------------- the calls

Call(op, symbol, side, quantity, price, approved, reason) ==
    [op |-> op, symbol |-> symbol, side |-> side, quantity |-> quantity,
     price |-> price, outcome |-> "returned", approved |-> approved,
     reason |-> reason]

NoCall == Call("none", "", "", 0, 0, FALSE, "")

\* ------------------------------------------------------- get_risk_metrics

\* 'positions': self.positions is the RiskManager's own dict object, not a
\* copy: the returned value holds a reference to it
SelfPositions == "self.positions"

\* the contents of the dict object behind a reference.  The RiskManager
\* creates one dict in __init__ and only ever writes into it.
dict_at(reference) == positions

\* abs(self.daily_pnl) / self.max_daily_loss * 100, in thousandths of a
\* percent (exact for the amounts explored: max_daily_loss is a whole,
\* nonzero number of units)
risk_utilization == (abs(daily_pnl) * 100) \div (max_daily_loss \div 1000)

\* RiskManager.get_risk_metrics: the returned dict
get_risk_metrics ==
    [daily_pnl |-> daily_pnl,
     max_daily_loss |-> max_daily_loss,
     positions |-> SelfPositions,
     risk_utilization |-> risk_utilization]

\* a returned snapshot, with what was true when it was taken: the contents
\* of positions, the number of fills applied, and the number of fills
\* applied when the snapshot before it was taken (-1: there was none)
Metrics(n, returned, seen_positions, at_calls, previous_at_calls) ==
    [n |-> n, returned |-> returned, seen_positions |-> seen_positions,
     at_calls |-> at_calls, previous_at_calls |-> previous_at_calls]

NoMetrics ==
    Metrics(0, [daily_pnl |-> 0, max_daily_loss |-> 0, positions |-> "",
                risk_utilization |-> 0], << >>, -1, -1)

\* ------------------------------------------------------ concurrent callers

Callers == {"c1", "c2"}

\* an approved order and what can_place_order read when it approved it
Order(symbol, side, quantity, price, seen_positions, seen_daily_pnl) ==
    [symbol |-> symbol, side |-> side, quantity |-> quantity, price |-> price,
     seen_positions |-> seen_positions, seen_daily_pnl |-> seen_daily_pnl]

NoOrder == Order("", "", 0, 0, << >>, 0)

\* ----------------------------------------------------------- execute_trade
\* POST /api/trade of main.py and of app_backup.py.  A message built by an
\* f-string is the sequence of its pieces.

\* the two files that define the endpoint
Apps == {"main", "app_backup"}

\* price: Optional[str] = None
NoPrice == "<None>"

\* TradeRequest: 'HOLD' and 'STOP' stand for any other side and type
Requests ==
    [symbol : {"BTCUSDT"}, side : {"BUY", "SELL", "HOLD"},
     type : {"MARKET", "LIMIT", "STOP"}, quantity : {"1"},
     price : {NoPrice, "", "100"}]

\* what a call into the exchange client does
Outcomes == {"ok", "BinanceAPIException", "Exception"}

NoException == [type |-> "None", status_code |-> 0, detail |-> << >>]

HTTPException(status_code, detail) ==
    [type |-> "HTTPException", status_code |-> status_code, detail |-> detail]

\* an exception the exchange client raises
ClientException(type) == [type |-> type, status_code |-> 0, detail |-> << >>]

\* str(e): starlette's HTTPException prints "<status_code>: <detail>"
str(e) ==
    IF e.type = "HTTPException"
    THEN <<IF e.status_code = 400 THEN "400" ELSE "500", ": ">> \o e.detail
    ELSE <<e.type>>

\* get_binance_client(): the exception it raises, NoException when it
\* returns a client
get_binance_client(app, api_key, secret_key, client_outcome) ==
    IF ~api_key \/ ~secret_key
    THEN HTTPException(500,
             IF app = "main"
             THEN <<"Binance API credentials not configured. Available vars: ",
                    "available_vars">>
             ELSE <<"Binance API credentials not configured">>)
    ELSE IF client_outcome = "ok" THEN NoException
    ELSE IF app = "app_backup"
    THEN HTTPException(500, <<"Failed to connect to Binance API">>)
    ELSE IF client_outcome = "BinanceAPIException"
    THEN HTTPException(500, <<"Binance API error: ", client_outcome>>)
    ELSE HTTPException(500, <<"Failed to connect to Binance API: ", client_outcome>>)

\* "if not trade_request.price"
price_missing(request) == request.price \in {NoPrice, ""}

\* the validation without the check of the LIMIT price
validation_no_price_check(request) ==
    IF request.side \notin {"BUY", "SELL"}
    THEN HTTPException(400, <<"Invalid side. Must be BUY or SELL">>)
    ELSE IF request.type \notin {"MARKET", "LIMIT"}
    THEN HTTPException(400, <<"Invalid type. Must be MARKET or LIMIT">>)
    ELSE NoException

\* the checks of the request, in order: the HTTPException raised, or
\* NoException
validation(request) ==
    IF request.side \notin {"BUY", "SELL"}
    THEN HTTPException(400, <<"Invalid side. Must be BUY or SELL">>)
    ELSE IF request.type \notin {"MARKET", "LIMIT"}
    THEN HTTPException(400, <<"Invalid type. Must be MARKET or LIMIT">>)
    ELSE IF request.type = "LIMIT" /\ price_missing(request)
    THEN HTTPException(400, <<"Price is required for LIMIT orders">>)
    ELSE NoException

\* order_params
order_params(request) ==
    IF request.type = "LIMIT"
    THEN [symbol |-> request.symbol, side |-> request.side, type |-> request.type,
          quantity |-> request.quantity, price |-> request.price,
          timeInForce |-> "GTC"]
    ELSE [symbol |-> request.symbol, side |-> request.side, type |-> request.type,
          quantity |-> request.quantity]

\* a method chosen by the side alone
order_method_market_only(request) ==
    IF request.side = "BUY" THEN "order_market_buy" ELSE "order_market_sell"

\* the client method that places the order
order_method(request) ==
    IF request.side = "BUY"
    THEN (IF request.type = "MARKET" THEN "order_market_buy" ELSE "order_limit_buy")
    ELSE (IF request.type = "MARKET" THEN "order_market_sell" ELSE "order_limit_sell")

\* the body of the try block: the order-placement calls made and the
\* exception that leaves the block, NoException when the block returns
try_block(app, request, api_key, secret_key, client_outcome, order_outcome) ==
    LET no_client == get_binance_client(app, api_key, secret_key, client_outcome)
        invalid == validation(request)
        call == [method |-> order_method(request), params |-> order_params(request)]
    IN  IF no_client.type # "None"
        THEN [order_calls |-> << >>, exception |-> no_client]
        ELSE IF invalid.type # "None"
        THEN [order_calls |-> << >>, exception |-> invalid]
        ELSE [order_calls |-> <<call>>,
              exception |-> IF order_outcome = "ok" THEN NoException
                            ELSE ClientException(order_outcome)]

\* execute_trade: the response, with the order-placement calls it made.
\* HTTPException is an Exception: one raised inside the try block is caught
\* by "except Exception".
execute_trade(app, request, api_key, secret_key, client_outcome, order_outcome) ==
    LET body == try_block(app, request, api_key, secret_key, client_outcome,
                          order_outcome)
    IN  IF body.exception.type = "None"
        THEN [status |-> 200, detail |-> << >>, order_calls |-> body.order_calls]
        ELSE IF body.exception.type = "BinanceAPIException"
        THEN [status |-> 400,
              detail |-> <<"Trade execution failed: ">> \o str(body.exception),
              order_calls |-> body.order_calls]
        ELSE [status |-> 500,
              detail |-> IF app = "main"
                         THEN <<"Failed to execute trade: ">> \o str(body.exception)
                         ELSE <<"Failed to execute trade">>,
              order_calls |-> body.order_calls]

\* ------------------------------------------------------- rate_limit_check
\* SecurityManager.rate_limit_check(key, limit, window) for one key, with
\* the Redis commands it issues.  Each command is one round trip to the
\* server; the server runs the commands of concurrent callers in any order.

\* the limit argument the callers pass
Limit == 2

\* "current is None"
NoValue == -1

\* the key is absent
NoKey == [exists |-> FALSE, value |-> 0, expires |-> FALSE]

\* GET key
redis_get == IF redis.exists THEN redis.value ELSE NoValue

\* SETEX key window value: the key holds value and expires after window
redis_setex(value) == [exists |-> TRUE, value |-> value, expires |-> TRUE]

\* INCR key: an absent key is created at 0, without expiry, and incremented
redis_incr ==
    IF redis.exists
    THEN [redis EXCEPT !.value = @ + 1]
    ELSE [exists |-> TRUE, value |-> 1, expires |-> FALSE]

\* no call of rate_limit_check yet
NoChecks ==
    [current |-> [c \in Callers |-> NoValue], started |-> 0, allowed |-> 0,
     expired |-> 0, returned |-> "none"]

\* a call returns True: the calls allowed since the counter was created,
\* by this very command when it creates the counter
allowed_after == IF redis.exists THEN limiter.allowed + 1 ELSE 1

NoRequest == [made |-> FALSE]

\* RiskManager() with the default limits
Init ==
    /\ max_daily_loss = DefaultMaxDailyLoss
    /\ max_position_size = DefaultMaxPositionSize
    /\ daily_pnl = 0
    /\ positions = << >>
    /\ calls = 0
    /\ trades = << >>
    /\ ret = NoCall
    /\ report = NoReport
    /\ metrics = NoMetrics
    /\ pc = [c \in Callers |-> "idle"]
    /\ order = [c \in Callers |-> NoOrder]
    /\ http = NoRequest
    /\ redis = NoKey
    /\ limiter = NoChecks

\* the gate asked with self.positions.setdefault(symbol, 0) in place of
\* self.positions.get(symbol, 0)
CanPlaceOrder_setdefault ==
    \E symbol \in Symbols, side \in Sides, quantity \in Quantities, price \in Prices :
        LET d == can_place_order(symbol, side, quantity, price) IN
        /\ ret' = Call("can_place_order", symbol, side, quantity, price,
                       d.approved, d.reason)
        /\ positions' = [s \in DOMAIN positions \cup {symbol} |-> current_position(s)]
        /\ UNCHANGED <<max_daily_loss, max_position_size, daily_pnl,
                       calls, trades, report>>
        /\ UNCHANGED aux

\* a caller asks the gate; nothing raises, the tuple is returned
CanPlaceOrder ==
    \E symbol \in Symbols, side \in Sides, quantity \in Quantities, price \in Prices :
        LET d == can_place_order(symbol, side, quantity, price) IN
        /\ ret' = Call("can_place_order", symbol, side, quantity, price,
                       d.approved, d.reason)
        /\ UNCHANGED <<max_daily_loss, max_position_size, daily_pnl, positions,
                       calls, trades, report>>
        /\ UNCHANGED aux

\* a caller reports an executed trade; nothing raises, None is returned
UpdatePosition ==
    \E symbol \in Symbols, side \in Sides, quantity \in Quantities, price \in Prices :
        /\ calls < MaxFills
        /\ calls' = calls + 1
        /\ update_position(symbol, side, quantity, price)
        /\ ret' = Call("update_position", symbol, side, quantity, price, FALSE, "")
        /\ UNCHANGED <<trades, report>>
        /\ UNCHANGED aux

Next == CanPlaceOrder \/ UpdatePosition

Spec == Init /\ [][Next]_vars

\* ------------------------------------------- the trade history and its PnL

\* a trade is executed: it joins the history and the RiskManager is updated
ExecuteTrade ==
    \E trade \in Trades :
        /\ Len(trades) < MaxTrades
        /\ trades' = Append(trades, trade)
        /\ calls' = calls + 1
        /\ update_position(trade.symbol, trade.side, trade.quantity, trade.price)
        /\ ret' = Call("update_position", trade.symbol, trade.side, trade.quantity,
                       trade.price, FALSE, "")
        /\ report' = NoReport
        /\ UNCHANGED aux

\* pnl_data = TradingUtils.calculate_pnl(trades)
Analytics ==
    /\ report' = calculate_pnl(trades)
    /\ UNCHANGED <<max_daily_loss, max_position_size, daily_pnl, positions, calls,
                   trades, ret>>
    /\ UNCHANGED aux

NextPnl == ExecuteTrade \/ Analytics

SpecPnl == Init /\ [][NextPnl]_vars

\* ------------------------------------------- the ledger and its snapshots

\* the gate is asked with self.positions.setdefault(symbol, 0) in place of
\* self.positions.get(symbol, 0)
Evaluate_setdefault ==
    \E symbol \in Symbols, side \in Sides, quantity \in LedgerQuantities,
       price \in LedgerPrices :
        LET d == can_place_order(symbol, side, quantity, price) IN
        /\ ret' = Call("can_place_order", symbol, side, quantity, price,
                       d.approved, d.reason)
        /\ positions' = [s \in DOMAIN positions \cup {symbol} |-> current_position(s)]
        /\ UNCHANGED <<max_daily_loss, max_position_size, daily_pnl,
                       calls, trades, report, metrics, pc, order, http, rate>>

\* a caller asks the gate
Evaluate ==
    \E symbol \in Symbols, side \in Sides, quantity \in LedgerQuantities,
       price \in LedgerPrices :
        LET d == can_place_order(symbol, side, quantity, price) IN
        /\ ret' = Call("can_place_order", symbol, side, quantity, price,
                       d.approved, d.reason)
        /\ UNCHANGED <<max_daily_loss, max_position_size, daily_pnl, positions,
                       calls, trades, report, metrics, pc, order, http, rate>>

\* a caller reports an executed trade
ApplyFill ==
    \E symbol \in Symbols, side \in Sides, quantity \in LedgerQuantities,
       price \in LedgerPrices :
        /\ calls < MaxLedgerFills
        /\ calls' = calls + 1
        /\ update_position(symbol, side, quantity, price)
        /\ ret' = Call("update_position", symbol, side, quantity, price, FALSE, "")
        /\ UNCHANGED <<trades, report, metrics, pc, order, http, rate>>

\* a caller takes a snapshot: RiskManager.get_risk_metrics()
GetRiskMetrics ==
    /\ metrics.n < MaxSnapshots
    /\ metrics' = Metrics(metrics.n + 1, get_risk_metrics, positions, calls,
                          metrics.at_calls)
    /\ UNCHANGED <<max_daily_loss, max_position_size, daily_pnl, positions, calls,
                   trades, ret, report, pc, order, http, rate>>

NextMetrics == Evaluate \/ ApplyFill \/ GetRiskMetrics

SpecMetrics == Init /\ [][NextMetrics]_vars

\* ------------------------------------------------------ concurrent callers
\* RiskManager takes no lock.  Each caller runs "can_place_order, then on
\* approval update_position" once; a step is one call of can_place_order,
\* the position write of update_position (lines 160-166) or its daily_pnl
\* write (lines 169-170), and the steps of the callers interleave freely.
\* (A thread switch inside "+=" is possible as well; the steps here are a
\* subset of the interleavings of the code.)

\* a caller asks the gate for its order
ConcEvaluate ==
    \E c \in Callers, symbol \in Symbols, side \in Sides,
       quantity \in LedgerQuantities, price \in LedgerPrices :
        LET d == can_place_order(symbol, side, quantity, price) IN
        /\ pc[c] = "idle"
        /\ ret' = Call("can_place_order", symbol, side, quantity, price,
                       d.approved, d.reason)
        /\ pc' = [pc EXCEPT ![c] = IF d.approved THEN "approved" ELSE "rejected"]
        /\ order' = [order EXCEPT ![c] =
                         IF d.approved
                         THEN Order(symbol, side, quantity, price, positions, daily_pnl)
                         ELSE NoOrder]
        /\ UNCHANGED <<max_daily_loss, max_position_size, daily_pnl, positions,
                       calls, trades, report, metrics, http, rate>>

\* update_position of an approved caller, up to the write of self.positions
ConcWritePosition ==
    \E c \in Callers :
        /\ pc[c] = "approved"
        /\ positions' = positions_after(order[c].symbol, order[c].side,
                                        order[c].quantity)
        /\ pc' = [pc EXCEPT ![c] = "position_written"]
        /\ UNCHANGED <<max_daily_loss, max_position_size, daily_pnl, calls, trades,
                       ret, report, metrics, order, http, rate>>

\* update_position of that caller, from the write of self.daily_pnl on
ConcWritePnl ==
    \E c \in Callers :
        /\ pc[c] = "position_written"
        /\ daily_pnl' = daily_pnl + pnl_change(order[c].side, order[c].quantity,
                                               order[c].price)
        /\ calls' = calls + 1
        /\ ret' = Call("update_position", order[c].symbol, order[c].side,
                       order[c].quantity, order[c].price, FALSE, "")
        /\ pc' = [pc EXCEPT ![c] = "done"]
        /\ UNCHANGED <<max_daily_loss, max_position_size, positions, trades,
                       report, metrics, order, http, rate>>

NextConc == ConcEvaluate \/ ConcWritePosition \/ ConcWritePnl \/ GetRiskMetrics

SpecConc == Init /\ [][NextConc]_vars

\* ------------------------------------------- callers that ask the gate first
\* Each caller asks can_place_order and calls update_position only for the
\* order it was approved for; each call runs to its end before the next.

\* a caller asks the gate and keeps the order when it is approved
GateEvaluate ==
    \E c \in Callers, symbol \in Symbols, side \in Sides,
       quantity \in GateQuantities, price \in GatePrices :
        LET d == can_place_order(symbol, side, quantity, price) IN
        /\ pc[c] = "idle"
        /\ ret' = Call("can_place_order", symbol, side, quantity, price,
                       d.approved, d.reason)
        /\ pc' = [pc EXCEPT ![c] = IF d.approved THEN "approved" ELSE "idle"]
        /\ order' = [order EXCEPT ![c] =
                         IF d.approved
                         THEN Order(symbol, side, quantity, price, << >>, 0)
                         ELSE NoOrder]
        /\ UNCHANGED <<max_daily_loss, max_position_size, daily_pnl, positions,
                       calls, trades, report, metrics, http, rate>>

\* a caller reports the fill of the order it was approved for
GateApply ==
    \E c \in Callers :
        /\ pc[c] = "approved"
        /\ calls < MaxGateFills
        /\ calls' = calls + 1
        /\ update_position(order[c].symbol, order[c].side, order[c].quantity,
                           order[c].price)
        /\ ret' = Call("update_position", order[c].symbol, order[c].side,
                       order[c].quantity, order[c].price, FALSE, "")
        /\ pc' = [pc EXCEPT ![c] = "idle"]
        /\ order' = [order EXCEPT ![c] = NoOrder]
        /\ UNCHANGED <<trades, report, metrics, http, rate>>

NextGate == GateEvaluate \/ GateApply

SpecGate == Init /\ [][NextGate]_vars

\* ----------------------------------------------------------- the endpoint

\* a client posts a trade request; the handler runs to its response
ExecuteTradeRequest ==
    \E app \in Apps, request \in Requests, api_key \in BOOLEAN,
       secret_key \in BOOLEAN, client_outcome \in Outcomes,
       order_outcome \in Outcomes :
        LET response == execute_trade(app, request, api_key, secret_key,
                                      client_outcome, order_outcome) IN
        /\ http' = [made |-> TRUE, app |-> app, request |-> request,
                    api_key |-> api_key, secret_key |-> secret_key,
                    client_outcome |-> client_outcome,
                    order_outcome |-> order_outcome,
                    status |-> response.status, detail |-> response.detail,
                    order_calls |-> response.order_calls]
        /\ UNCHANGED <<max_daily_loss, max_position_size, daily_pnl, positions,
                       calls, trades, ret, report, metrics, pc, order, rate>>

NextTrade == ExecuteTradeRequest

SpecTrade == Init /\ [][NextTrade]_vars

\* ------------------------------------------------------- the rate limiter

\* current = self.redis_client.get(key)
RateGet ==
    \E c \in Callers :
        /\ pc[c] = "idle"
        /\ limiter.started < MaxRateCalls
        /\ limiter' = [limiter EXCEPT !.current[c] = redis_get,
                                      !.started = @ + 1]
        /\ pc' = [pc EXCEPT ![c] = "got"]
        /\ UNCHANGED <<max_daily_loss, max_position_size, daily_pnl, positions,
                       calls, trades, ret, report, metrics, order, http, redis>>

\* if current is None: setex(key, window, 1); return True
RateSetex ==
    \E c \in Callers :
        /\ pc[c] = "got"
        /\ limiter.current[c] = NoValue
        /\ redis' = redis_setex(1)
        /\ limiter' = [limiter EXCEPT !.allowed = allowed_after,
                                      !.returned = "True"]
        /\ pc' = [pc EXCEPT ![c] = "idle"]
        /\ UNCHANGED <<max_daily_loss, max_position_size, daily_pnl, positions,
                       calls, trades, ret, report, metrics, order, http>>

\* if int(current) >= limit: return False
RateRefuse ==
    \E c \in Callers :
        /\ pc[c] = "got"
        /\ limiter.current[c] # NoValue
        /\ limiter.current[c] >= Limit
        /\ limiter' = [limiter EXCEPT !.returned = "False"]
        /\ pc' = [pc EXCEPT ![c] = "idle"]
        /\ UNCHANGED <<max_daily_loss, max_position_size, daily_pnl, positions,
                       calls, trades, ret, report, metrics, order, http, redis>>

\* otherwise: incr(key); return True
RateIncr ==
    \E c \in Callers :
        /\ pc[c] = "got"
        /\ limiter.current[c] # NoValue
        /\ limiter.current[c] < Limit
        /\ redis' = redis_incr
        /\ limiter' = [limiter EXCEPT !.allowed = allowed_after,
                                      !.returned = "True"]
        /\ pc' = [pc EXCEPT ![c] = "idle"]
        /\ UNCHANGED <<max_daily_loss, max_position_size, daily_pnl, positions,
                       calls, trades, ret, report, metrics, order, http>>

\* the window of a key set with SETEX ends: the server deletes the key
RateExpire ==
    /\ redis.exists
    /\ redis.expires
    /\ limiter.expired < MaxExpiries
    /\ redis' = NoKey
    /\ limiter' = [limiter EXCEPT !.allowed = 0, !.expired = @ + 1]
    /\ UNCHANGED <<max_daily_loss, max_position_size, daily_pnl, positions,
                   calls, trades, ret, report, metrics, pc, order, http>>

NextRate == RateGet \/ RateSetex \/ RateRefuse \/ RateIncr \/ RateExpire

SpecRate == Init /\ [][NextRate]_vars

\* ================================================================ claims

IsCanPlaceOrder == ret.op = "can_place_order"
IsUpdatePosition == ret.op = "update_position"

\* the notional threshold max_position_size * 10000 of the constructed limits
Threshold == max_position_size * ReferenceAccountSize

\* the position of a symbol, 0 when the symbol was never traded
PositionOf(pos, symbol) == IF symbol \in DOMAIN pos THEN pos[symbol] ELSE 0

\* the three conditions of the gate, stated for the order held in ret
DailyLossFails == daily_pnl <= -max_daily_loss
PositionSizeFails == ret.quantity * ret.price > Threshold
ProspectivePosition ==
    IF ret.side = "BUY"
    THEN PositionOf(positions, ret.symbol) + ret.quantity
    ELSE PositionOf(positions, ret.symbol) - ret.quantity
PositionLimitFails ==
    \/ ProspectivePosition * ret.price > Threshold
    \/ ProspectivePosition * ret.price < -Threshold

ValidSide(side) == side \in {"BUY", "SELL"}
ValidFill(t) == ValidSide(t.side) /\ t.quantity > 0 /\ t.price > 0

AllValid(ts) == \A i \in 1..Len(ts) : ValidFill(ts[i])

\* the realized PnL a report gives for a symbol, 0 when the symbol is absent
RealizedPnl(r, symbol) ==
    IF symbol \in DOMAIN r.symbol_breakdown
    THEN r.symbol_breakdown[symbol].realized_pnl
    ELSE 0

\* the sum of the per-symbol realized PnL of a report
SumOfSymbols(r) ==
    RealizedPnl(r, "BTCUSDT") + RealizedPnl(r, "ETHUSDT")

\* the nearest whole hundredth of an amount that is no tie
NearestHundredth(x) ==
    CHOOSE h \in {10 * k : k \in ((x \div 10) - 1)..((x \div 10) + 1)} :
        \A g \in {10 * k : k \in ((x \div 10) - 1)..((x \div 10) + 1)} :
            abs(x - h) <= abs(x - g)

\* C1 (as stated): after any sequence of valid fills the reported total
\* realized PnL equals the sum of the per-symbol realized PnL.
C1_TotalEqualsSum ==
    (report.made /\ AllValid(trades)) => report.total_pnl = SumOfSymbols(report)

\* C1 (amended): after any sequence of valid fills the reported total
\* realized PnL equals the sum of the per-symbol realized PnL rounded to two
\* decimals.
C1_TotalIsRoundedSum ==
    (report.made /\ AllValid(trades)) =>
        report.total_pnl = NearestHundredth(SumOfSymbols(report))

\* a report over fills of both symbols whose sum is no whole hundredth
C1_Witness ==
    /\ report.made
    /\ AllValid(trades)
    /\ DOMAIN report.symbol_breakdown = Symbols
    /\ SumOfSymbols(report) % 10 # 0

\* C2: can_place_order rejects with the daily-loss reason whenever
\* daily_pnl <= -max_daily_loss, whatever the order.
C2_DailyLossRejects ==
    (IsCanPlaceOrder /\ daily_pnl <= -max_daily_loss) =>
        (~ret.approved /\ ret.reason = "Daily loss limit exceeded")

\* the boundary daily_pnl = -max_daily_loss with the smallest order
C2_Witness ==
    /\ IsCanPlaceOrder
    /\ daily_pnl = -max_daily_loss
    /\ ret.quantity = 2000 /\ ret.price = 100
    /\ ~ret.approved

\* C3: the reason is that of the first failing check in the order daily
\* loss, position size, position limit: of two checks that fail together
\* only the earlier one is reported.
C3_FirstFailingCheck ==
    IsCanPlaceOrder =>
        /\ (DailyLossFails /\ (PositionSizeFails \/ PositionLimitFails)) =>
               ret.reason = "Daily loss limit exceeded"
        /\ (~DailyLossFails /\ PositionSizeFails /\ PositionLimitFails) =>
               ret.reason = "Position size too large"

\* an order that violates the daily-loss and the position-size limit
C3_Witness ==
    /\ IsCanPlaceOrder
    /\ DailyLossFails /\ PositionSizeFails
    /\ ret.reason = "Daily loss limit exceeded"

\* C4: can_place_order with quantity <= 0 or price <= 0 fails with
\* InvalidOrderError and returns no decision.
C4_InvalidOrderRaises ==
    (IsCanPlaceOrder /\ (ret.quantity <= 0 \/ ret.price <= 0)) =>
        ret.outcome = "InvalidOrderError"

\* C5: update_position with quantity <= 0, price <= 0 or a side other than
\* BUY and SELL fails with InvalidFillError.
C5_InvalidFillRaises ==
    (IsUpdatePosition /\ ~ValidFill(ret)) => ret.outcome = "InvalidFillError"

\* C6: a valid fill changes the position of its symbol by +quantity for BUY
\* and -quantity for SELL and leaves every other symbol's position alone.
C6_PositionDelta ==
    [][(calls' = calls + 1 /\ ValidFill(ret')) =>
          \A s \in Symbols :
              PositionOf(positions', s) =
                  PositionOf(positions, s)
                  + (IF s # ret'.symbol THEN 0
                     ELSE IF ret'.side = "BUY" THEN ret'.quantity
                     ELSE -ret'.quantity)]_vars

\* from position 0, BUY 2 then SELL 3 of BTCUSDT: the position is -1
C6_Witness ==
    /\ calls = 2
    /\ IsUpdatePosition
    /\ ret.symbol = "BTCUSDT" /\ ret.side = "SELL"
    /\ ret.quantity = 3000 /\ ret.price = 100
    /\ positions = [s \in {"BTCUSDT"} |-> -1000]
    /\ daily_pnl = 100000

\* C7: a valid fill changes the realized PnL of its symbol by
\* +quantity*price for SELL and -quantity*price for BUY, and the running
\* total daily_pnl by the same amount.
C7_PnlDelta ==
    [][(Len(trades') = Len(trades) + 1 /\ ValidFill(trades'[Len(trades')])) =>
          LET t == trades'[Len(trades')]
              delta == IF t.side = "SELL"
                       THEN t.quantity * t.price
                       ELSE -(t.quantity * t.price)
          IN  /\ RealizedPnl(calculate_pnl(trades'), t.symbol) =
                     RealizedPnl(calculate_pnl(trades), t.symbol) + delta
              /\ daily_pnl' = daily_pnl + delta]_vars

\* BUY 1 BTCUSDT at 100 then SELL 1 BTCUSDT at 150: realized PnL 50
C7_Witness ==
    /\ trades = << [symbol |-> "BTCUSDT", side |-> "BUY", quantity |-> 1000,
                    price |-> 100],
                   [symbol |-> "BTCUSDT", side |-> "SELL", quantity |-> 1000,
                    price |-> 150] >>
    /\ report.made
    /\ RealizedPnl(report, "BTCUSDT") = 50000
    /\ daily_pnl = 50000

\* C8: with daily_pnl above -max_daily_loss, an order whose notional exceeds
\* max_position_size * 10000 is rejected as too large, and an order whose
\* notional equals that threshold is not rejected by this check.
C8_PositionSizeRejects ==
    (IsCanPlaceOrder /\ daily_pnl > -max_daily_loss) =>
        /\ ret.quantity * ret.price > Threshold =>
               (~ret.approved /\ ret.reason = "Position size too large")
        /\ ret.quantity * ret.price = Threshold =>
               ret.reason # "Position size too large"

\* limits 1000 / 10000 / 0.1, daily_pnl 0: quantity 15 at price 100
C8_Witness ==
    /\ IsCanPlaceOrder
    /\ max_daily_loss = 1000000 /\ max_position_size = 100
    /\ daily_pnl = 0
    /\ ret.quantity = 15000 /\ ret.price = 100
    /\ ~ret.approved /\ ret.reason = "Position size too large"

\* C9: when the daily-loss and position-size checks pass, a BUY or SELL is
\* rejected for the position limit exactly when |prospective position *
\* price| exceeds max_position_size * 10000.
C9_PositionLimitRejects ==
    (IsCanPlaceOrder /\ ValidSide(ret.side) /\ ~DailyLossFails /\ ~PositionSizeFails)
        => (ret.reason = "Position limit would be exceeded" <=> PositionLimitFails)

\* an order within the size limit that an existing position pushes over it
C9_Witness ==
    /\ IsCanPlaceOrder
    /\ ValidSide(ret.side)
    /\ ~DailyLossFails /\ ~PositionSizeFails
    /\ PositionOf(positions, ret.symbol) # 0
    /\ ret.reason = "Position limit would be exceeded"

\* C10: a BUY or SELL is approved, with reason "Order approved", if and only
\* if none of the three checks fails; a rejection carries approved = false
\* and one of the three rejection reasons.
C10_ApprovedIffNoCheckFails ==
    (IsCanPlaceOrder /\ ValidSide(ret.side)) =>
        /\ ret.approved <=> ~(DailyLossFails \/ PositionSizeFails \/ PositionLimitFails)
        /\ ret.approved => ret.reason = "Order approved"
        /\ ~ret.approved =>
               ret.reason \in {"Daily loss limit exceeded",
                               "Position size too large",
                               "Position limit would be exceeded"}

\* an approved order on top of an existing position
C10_Witness ==
    /\ IsCanPlaceOrder
    /\ ret.approved /\ ret.reason = "Order approved"
    /\ ret.quantity > 0 /\ ret.price > 0
    /\ PositionOf(positions, ret.symbol) # 0

\* C11: can_place_order is read-only: whatever the order and the outcome,
\* the call leaves positions (no entry is created for an unseen symbol),
\* daily_pnl and the limits unchanged and applies no fill.
C11_EvaluateReadOnly ==
    [][ret'.op = "can_place_order" =>
          /\ positions' = positions
          /\ DOMAIN positions' = DOMAIN positions
          /\ daily_pnl' = daily_pnl
          /\ max_daily_loss' = max_daily_loss
          /\ max_position_size' = max_position_size
          /\ calls' = calls]_vars

\* an order for a symbol never traded was approved and left no entry behind
C11_Witness ==
    /\ IsCanPlaceOrder
    /\ ret.approved
    /\ positions # << >>
    /\ ret.symbol \notin DOMAIN positions

\* C14 (as stated): the positions a snapshot returned are not changed by a
\* later update_position.
C14_SnapshotIsImmutableCopy ==
    metrics.n > 0 => dict_at(metrics.returned.positions) = metrics.seen_positions

\* C15: two snapshots with no update_position between them are identical,
\* whatever can_place_order calls happen in between.
C15_SnapshotsAgree ==
    [][(metrics'.n = metrics.n + 1 /\ metrics.n > 0 /\ metrics.at_calls = calls) =>
          /\ metrics'.returned = metrics.returned
          /\ metrics'.seen_positions = metrics.seen_positions]_vars

\* a second snapshot taken with no fill since the first, on a ledger that
\* holds a fill and has last been asked an order
C15_Witness ==
    /\ metrics.n = 2
    /\ metrics.previous_at_calls = metrics.at_calls
    /\ metrics.at_calls = calls
    /\ calls > 0
    /\ IsCanPlaceOrder

\* C16: the position entries are exactly the symbols ever filled: an entry
\* is created by the first fill of its symbol and stays when its quantity
\* returns to zero.
C16_OneEntryPerSymbolFilled ==
    DOMAIN positions = {trades[i].symbol : i \in 1..Len(trades)}

\* BUY 1 then SELL 1 of BTCUSDT: the entry stays, at quantity 0
C16_Witness ==
    /\ Len(trades) = 2
    /\ trades[1].side = "BUY" /\ trades[2].side = "SELL"
    /\ positions = [s \in {"BTCUSDT"} |-> 0]

\* C17: a fresh ledger has total PnL 0, no position and an empty PnL
\* breakdown, and the position of a symbol no fill has referenced reads as
\* 0: an order for it that passes the first two checks is approved.
C17_UnseenSymbolReadsZero ==
    /\ calls = 0 =>
           /\ daily_pnl = 0
           /\ positions = << >>
           /\ calculate_pnl(trades).total_pnl = 0
           /\ DOMAIN calculate_pnl(trades).symbol_breakdown = {}
    /\ (IsCanPlaceOrder /\ ret.symbol \notin DOMAIN positions
            /\ ~DailyLossFails /\ ~PositionSizeFails) => ret.approved

\* an order of exactly the threshold for a symbol never traded, approved
\* on a ledger that holds a position in the other symbol
C17_Witness ==
    /\ IsCanPlaceOrder
    /\ ret.symbol \notin DOMAIN positions
    /\ positions # << >>
    /\ ret.quantity = 10000 /\ ret.price = 100
    /\ ret.approved

\* C18: max_daily_loss and max_position_size keep the values given at
\* construction in every reachable state.
C18_LimitsFixed ==
    /\ max_daily_loss = DefaultMaxDailyLoss
    /\ max_position_size = DefaultMaxPositionSize

\* the limits after an order was asked, fills were applied and a snapshot
\* was taken
C18_Witness ==
    /\ calls = MaxLedgerFills
    /\ metrics.n > 0 /\ metrics.at_calls > 0
    /\ IsCanPlaceOrder
    /\ daily_pnl < 0
    /\ max_daily_loss = DefaultMaxDailyLoss
    /\ max_position_size = DefaultMaxPositionSize

\* C12: no other caller's fill is applied between a caller's approval and
\* that caller's own update_position: an approved caller that has not yet
\* applied its fill still faces the ledger it was approved against.
C12_ApprovedAgainstCurrentLedger ==
    \A c \in Callers :
        pc[c] = "approved" =>
            /\ order[c].seen_positions = positions
            /\ order[c].seen_daily_pnl = daily_pnl

\* the callers whose fill has begun
Started == {c \in Callers : pc[c] \in {"approved", "position_written", "done"}}

RECURSIVE SumOver(_, _)
SumOver(f, S) ==
    IF S = {} THEN 0
    ELSE LET c == CHOOSE x \in S : TRUE IN f[c] + SumOver(f, S \ {c})

\* the ledger with exactly the fills of the callers in S applied, each whole
PositionsAfterFills(S) ==
    [s \in {order[c].symbol : c \in S} |->
        SumOver([c \in Callers |->
                    IF order[c].side = "BUY" THEN order[c].quantity
                    ELSE -order[c].quantity],
                {c \in S : order[c].symbol = s})]
PnlAfterFills(S) ==
    SumOver([c \in Callers |->
                IF order[c].side = "SELL" THEN order[c].quantity * order[c].price
                ELSE -(order[c].quantity * order[c].price)], S)

\* C13: a snapshot shows the ledger before or after each update_position,
\* whole: its positions and daily_pnl are those of some set of fills, each
\* applied completely.
C13_SnapshotIsAllOrNothing ==
    metrics.n > 0 =>
        \E S \in SUBSET Started :
            /\ metrics.seen_positions = PositionsAfterFills(S)
            /\ metrics.returned.daily_pnl = PnlAfterFills(S)

\* the request reached the checks: credentials present, client connected
ReachedValidation ==
    http.api_key /\ http.secret_key /\ http.client_outcome = "ok"

\* C19: a side other than BUY and SELL, a type other than MARKET and LIMIT,
\* and a LIMIT order without a price are each answered with status 400 and
\* the matching detail, not with status 500.
C19_ValidationFailuresAre400 ==
    (http.made /\ ReachedValidation) =>
        /\ http.request.side \notin {"BUY", "SELL"} =>
               /\ http.status = 400
               /\ http.detail = <<"Invalid side. Must be BUY or SELL">>
        /\ (http.request.side \in {"BUY", "SELL"}
                /\ http.request.type \notin {"MARKET", "LIMIT"}) =>
               /\ http.status = 400
               /\ http.detail = <<"Invalid type. Must be MARKET or LIMIT">>
        /\ (http.request.side \in {"BUY", "SELL"} /\ http.request.type = "LIMIT"
                /\ http.request.price \in {NoPrice, ""}) =>
               /\ http.status = 400
               /\ http.detail = <<"Price is required for LIMIT orders">>

\* C20: an order-placement call is made only for a request with side BUY or
\* SELL, type MARKET or LIMIT and, for LIMIT, a non-empty price, and only
\* with credentials and a connected client.
C20_OrderOnlyAfterValidation ==
    (http.made /\ http.order_calls # << >>) =>
        /\ http.request.side \in {"BUY", "SELL"}
        /\ http.request.type \in {"MARKET", "LIMIT"}
        /\ http.request.type = "LIMIT" => http.request.price \notin {NoPrice, ""}
        /\ http.api_key /\ http.secret_key
        /\ http.client_outcome = "ok"

\* a LIMIT order with a price that reached the exchange
C20_Witness ==
    /\ http.made
    /\ Len(http.order_calls) = 1
    /\ http.request.type = "LIMIT"
    /\ http.request.price = "100"
    /\ http.status = 200

\* the request passed the three checks
Validated ==
    /\ http.request.side \in {"BUY", "SELL"}
    /\ http.request.type \in {"MARKET", "LIMIT"}
    /\ http.request.type = "LIMIT" => http.request.price \notin {NoPrice, ""}

\* C21: a validated request makes exactly one order-placement call whose
\* kind matches the side and type; a LIMIT order carries the requested
\* price and timeInForce GTC, a MARKET order carries neither.
C21_OneMatchingOrderCall ==
    (http.made /\ ReachedValidation /\ Validated) =>
        /\ Len(http.order_calls) = 1
        /\ LET call == http.order_calls[1] IN
           /\ (http.request.side = "BUY" /\ http.request.type = "MARKET")
                  => call.method = "order_market_buy"
           /\ (http.request.side = "BUY" /\ http.request.type = "LIMIT")
                  => call.method = "order_limit_buy"
           /\ (http.request.side = "SELL" /\ http.request.type = "MARKET")
                  => call.method = "order_market_sell"
           /\ (http.request.side = "SELL" /\ http.request.type = "LIMIT")
                  => call.method = "order_limit_sell"
           /\ http.request.type = "LIMIT" =>
                  /\ {"price", "timeInForce"} \subseteq DOMAIN call.params
                  /\ call.params.price = http.request.price
                  /\ call.params.timeInForce = "GTC"
           /\ http.request.type = "MARKET" =>
                  {"price", "timeInForce"} \cap DOMAIN call.params = {}
           /\ call.params.symbol = http.request.symbol
           /\ call.params.side = http.request.side
           /\ call.params.quantity = http.request.quantity

\* a validated SELL LIMIT request that placed its order
C21_Witness ==
    /\ http.made /\ ReachedValidation /\ Validated
    /\ http.request.side = "SELL"
    /\ http.request.type = "LIMIT"
    /\ Len(http.order_calls) = 1
    /\ http.order_calls[1].method = "order_limit_sell"

\* the step is a call of update_position
FillStep == calls' = calls + 1

\* the step is a call of can_place_order
EvaluateStep == calls' = calls /\ ret'.op = "can_place_order"

\* the call before this update_position approved the same order
DirectlyAfterApproval ==
    /\ ret.op = "can_place_order"
    /\ ret.approved
    /\ ret.symbol = ret'.symbol
    /\ ret.side = ret'.side
    /\ ret.quantity = ret'.quantity
    /\ ret.price = ret'.price

\* from a state at the daily-loss limit the step rejects or changes nothing
StaysHalted ==
    /\ daily_pnl' <= -max_daily_loss'
    /\ daily_pnl' = daily_pnl
    /\ positions' = positions
    /\ EvaluateStep => /\ ~ret'.approved
                       /\ ret'.reason = "Daily loss limit exceeded"

C23_FilledPositionWithinLimit ==
    [][(FillStep /\ DirectlyAfterApproval) =>
          abs(PositionOf(positions', ret'.symbol) * ret'.price) <= Threshold']_vars

\* a second fill that followed its approval brought the position to the
\* limit itself
C23_Witness ==
    /\ calls = 2
    /\ ret.op = "update_position"
    /\ \A c \in Callers : pc[c] = "idle"
    /\ PositionOf(positions, ret.symbol) \notin {0, ret.quantity, -ret.quantity}
    /\ abs(PositionOf(positions, ret.symbol) * ret.price) = Threshold

\* C24: after update_position on each trade of a history, trades of a side
\* other than BUY and SELL included, daily_pnl equals the sum of the
\* per-symbol realized_pnl that calculate_pnl computes for the history, and
\* each trade moves the position and the PnL in opposite directions.
C24_LedgersAgree ==
    [][Len(trades') = Len(trades) + 1 =>
          LET t == trades'[Len(trades')]
              position_change == PositionOf(positions', t.symbol)
                                     - PositionOf(positions, t.symbol)
              daily_pnl_change == daily_pnl' - daily_pnl
          IN  /\ daily_pnl' = SumOfSymbols(calculate_pnl(trades'))
              /\ position_change > 0 => daily_pnl_change < 0
              /\ position_change < 0 => daily_pnl_change > 0]_vars

\* C25: with Redis available, under any interleaving of concurrent
\* rate_limit_check calls at most limit calls return True between the
\* creation of the key's counter and its expiry, and the counter always
\* carries an expiry.
C25_AtMostLimitAllowed ==
    redis.exists => /\ limiter.allowed <= Limit
                    /\ redis.expires

====
